---------------------------- MODULE Spec2Model ----------------------------
(***************************************************************************)
(* A model of the HTTP server of src/main.rs: a listener whose accepted    *)
(* connections are handed to a pool of N_WORKERS threads; each task reads  *)
(* the connection once, parses the request, routes on Path and writes one  *)
(* response.                                                               *)
(*                                                                         *)
(* Text is modelled at the level of the single character: a Rust &str is   *)
(* a sequence of one-character strings, a byte buffer a sequence of bytes. *)
(* The bytes are the ASCII characters plus "xFF" (a byte that is not valid *)
(* UTF-8) and "xEF","xBF","xBD" (the UTF-8 encoding of U+FFFD, written     *)
(* "uFFFD" as a character).                                                *)
(***************************************************************************)
EXTENDS Integers, Sequences, FiniteSets, TLC

(***************************************************************************)
(* Literals of the source.                                                 *)
(***************************************************************************)
USER_AGENT == <<"U", "s", "e", "r", "-", "A", "g", "e", "n", "t">>
PATH == <<"P", "a", "t", "h">>
SUPPORTED_ENCODING == <<"g", "z", "i", "p">>
N_WORKERS == 5
BUFFER_SIZE == 1024

TYPE == <<"T", "y", "p", "e">>
VERSION == <<"V", "e", "r", "s", "i", "o", "n">>
BODY == <<"B", "o", "d", "y">>
ACCEPT_ENCODING == <<"A", "c", "c", "e", "p", "t", "-", "E", "n", "c", "o", "d", "i", "n", "g">>
INVALID == <<"i", "n", "v", "a", "l", "i", "d">>
CRLF == <<"\r", "\n">>
SP == <<" ">>
COLON_SP == <<":", " ">>
COMMA_SP == <<",", " ">>
ROOT == <<"/">>
ECHO == <<"/", "e", "c", "h", "o">>
ECHO_SLASH == <<"/", "e", "c", "h", "o", "/">>
FILES == <<"/", "f", "i", "l", "e", "s">>
FILES_SLASH == <<"/", "f", "i", "l", "e", "s", "/">>
USER_AGENT_PATH == <<"/", "u", "s", "e", "r", "-", "a", "g", "e", "n", "t">>
GET == <<"G", "E", "T">>
POST == <<"P", "O", "S", "T">>
HTTP11 == <<"H", "T", "T", "P", "/", "1", ".", "1">>
RESP_200 == <<"H", "T", "T", "P", "/", "1", ".", "1", " ", "2", "0", "0", " ", "O", "K", "\r", "\n", "\r", "\n">>
RESP_404 == <<"H", "T", "T", "P", "/", "1", ".", "1", " ", "4", "0", "4", " ", "N", "o", "t", " ", "F", "o", "u", "n", "d", "\r", "\n", "\r", "\n">>
RESP_201 == <<"H", "T", "T", "P", "/", "1", ".", "1", " ", "2", "0", "1", " ", "C", "r", "e", "a", "t", "e", "d", "\r", "\n", "\r", "\n">>
RESP_200_TEXT == <<"H", "T", "T", "P", "/", "1", ".", "1", " ", "2", "0", "0", " ", "O", "K", "\r", "\n", "C", "o", "n", "t", "e", "n", "t", "-", "T", "y", "p", "e", ":", " ", "t", "e", "x", "t", "/", "p", "l", "a", "i", "n", "\r", "\n">>
RESP_200_OCTET == <<"H", "T", "T", "P", "/", "1", ".", "1", " ", "2", "0", "0", " ", "O", "K", "\r", "\n", "C", "o", "n", "t", "e", "n", "t", "-", "T", "y", "p", "e", ":", " ", "a", "p", "p", "l", "i", "c", "a", "t", "i", "o", "n", "/", "o", "c", "t", "e", "t", "-", "s", "t", "r", "e", "a", "m", "\r", "\n">>
HDR_GZIP == <<"C", "o", "n", "t", "e", "n", "t", "-", "E", "n", "c", "o", "d", "i", "n", "g", ":", " ", "g", "z", "i", "p", "\r", "\n">>
HDR_LEN == <<"C", "o", "n", "t", "e", "n", "t", "-", "L", "e", "n", "g", "t", "h", ":", " ">>
CRLFCRLF == <<"\r", "\n", "\r", "\n">>

(***************************************************************************)
(* Rust's str and slice operations, as the standard library computes them. *)
(***************************************************************************)
Min(a, b) == IF a < b THEN a ELSE b

\* The element of a singleton.  TLC passes the arguments of an operator
\* unevaluated and, where it evaluates ENABLED, evaluates an argument again
\* at every use; a recursive operator binds the value of its argument once,
\* as Only({F(x) : x \in {argument}}).
Only(S) == CHOOSE r \in S : TRUE

Drop(s, n) == SubSeq(s, n + 1, Len(s))

\* str::starts_with
starts_with(s, p) ==
    /\ Len(p) <= Len(s)
    /\ SubSeq(s, 1, Len(p)) = p

\* The index of the first occurrence of pat in s, 0 when there is none.
Find(s, pat) ==
    LET hits == {i \in 1..(Len(s) - Len(pat) + 1) : SubSeq(s, i, i + Len(pat) - 1) = pat}
    IN  IF hits = {} THEN 0 ELSE CHOOSE i \in hits : \A j \in hits : i <= j

\* str::split(pat).collect(): the pieces between the non-overlapping
\* occurrences of pat, found left to right; one piece when pat is absent.
RECURSIVE split(_, _)
split(s, pat) ==
    LET pieces(str, i) ==
            IF i = 0
            THEN <<str>>
            ELSE <<SubSeq(str, 1, i - 1)>> \o split(Drop(str, i + Len(pat) - 1), pat)
    IN  Only({Only({pieces(str, i) : i \in {Find(str, pat)}}) : str \in {s}})

\* str::trim_start_matches(pat): pat removed from the front repeatedly,
\* until the string no longer starts with it.
RECURSIVE trim_start_matches(_, _)
trim_start_matches(s, pat) ==
    IF starts_with(s, pat)
    THEN trim_start_matches(Drop(s, Len(pat)), pat)
    ELSE s

\* The concatenation of a sequence of sequences.
RECURSIVE Flatten(_)
Flatten(ss) ==
    IF ss = <<>> THEN <<>> ELSE Head(ss) \o Flatten(Tail(ss))

\* String::from_utf8_lossy on the bytes of the model: an ASCII byte is its
\* character, the three bytes EF BF BD decode to U+FFFD, and a byte that
\* begins no valid sequence is replaced by U+FFFD.  The bytes before the
\* first byte that is not ASCII are kept in one piece.
RECURSIVE from_utf8_lossy(_)
from_utf8_lossy(bytes) ==
    LET lossy(b) ==
            LET high == {i \in 1..Len(b) : b[i] \in {"xFF", "xEF", "xBF", "xBD"}}
                first == CHOOSE i \in high : \A j \in high : i <= j
                rest == Drop(b, first - 1)
            IN  IF high = {} THEN b
                ELSE SubSeq(b, 1, first - 1) \o <<"uFFFD">>
                        \o from_utf8_lossy(IF starts_with(rest, <<"xEF", "xBF", "xBD">>)
                                            THEN Drop(rest, 3)
                                            ELSE Tail(rest))
    IN  Only({lossy(b) : b \in {bytes}})

\* str::as_bytes: the UTF-8 encoding; U+FFFD takes three bytes.
as_bytes(str) ==
    Flatten([i \in 1..Len(str) |->
                IF str[i] = "uFFFD" THEN <<"xEF", "xBF", "xBD">> ELSE <<str[i]>>])

\* String::from_utf8 succeeds: every byte belongs to a valid sequence.
RECURSIVE is_utf8(_)
is_utf8(bytes) ==
    IF bytes = <<>> THEN TRUE
    ELSE IF starts_with(bytes, <<"xEF", "xBF", "xBD">>) THEN is_utf8(Drop(bytes, 3))
    ELSE Head(bytes) \notin {"xFF", "xEF", "xBF", "xBD"} /\ is_utf8(Tail(bytes))

\* The length in characters (str.chars().count()).
chars_count(str) == Len(str)

\* str::len: the length in bytes.
len(str) == Len(as_bytes(str))

\* format!("{}", n) of a usize: its decimal digits.
Digit(d) == <<"0", "1", "2", "3", "4", "5", "6", "7", "8", "9">>[d + 1]

RECURSIVE to_string(_)
to_string(n) ==
    IF n < 10 THEN <<Digit(n)>> ELSE to_string(n \div 10) \o <<Digit(n % 10)>>

(***************************************************************************)
(* parse_request: the request text to the details map.  The map is a       *)
(* function from keys to values; insert overwrites.  A request line with   *)
(* fewer than three tokens makes the index str_split[1] or str_split[2]    *)
(* panic: parse_panics says when, and parse_request is the map otherwise.  *)
(***************************************************************************)
EmptyMap == [k \in {} |-> <<>>]

insert(m, k, v) == [x \in DOMAIN m \cup {k} |-> IF x = k THEN v ELSE m[x]]

\* Lines 52-56: the first line, split on single spaces.
parse_first_line(str) ==
    LET str_split == split(str, SP)
    IN  insert(insert(insert(EmptyMap, TYPE, str_split[1]),
                      PATH, str_split[2]),
               VERSION, str_split[3])

\* Lines 60-67: one line after the first.
parse_line(details, data) ==
    LET data_split == split(data, COLON_SP)
    IN  IF Len(data_split) = 2
        THEN insert(details, data_split[1], data_split[2])
        ELSE IF Len(data_split) = 1
             THEN insert(details, BODY, data_split[1])
             ELSE details

RECURSIVE parse_lines(_, _)
parse_lines(details, lines) ==
    LET loop(d) ==
            IF lines = <<>>
            THEN d
            ELSE parse_lines(parse_line(d, Head(lines)), Tail(lines))
    IN  Only({loop(d) : d \in {details}})

\* Lines 54-56 index out of bounds.
parse_panics(request_str) ==
    Len(split(Head(split(request_str, CRLF)), SP)) < 3

parse_request(request_str) ==
    LET split_request == split(request_str, CRLF)
    IN  parse_lines(parse_first_line(Head(split_request)), Tail(split_request))

\* HashMap::get(key).map_or(default, ..)
get_or(m, k, default) == IF k \in DOMAIN m THEN m[k] ELSE default

(***************************************************************************)
(* flate2's GzEncoder, a library the server calls: the 10-byte gzip        *)
(* header, a deflate stream and the 8-byte trailer (CRC32, ISIZE).  The    *)
(* deflate stream is modelled as one stored block (its 5-byte block header *)
(* and then the data); what matters to the server is that the result is    *)
(* not the input, has another length and decompresses to the input.        *)
(***************************************************************************)
GZ_HEADER == <<"x1F", "x8B", "x08", "x00", "x00", "x00", "x00", "x00", "x00", "xFF">>
GZ_BLOCK == <<"x01", "len0", "len1", "nlen0", "nlen1">>
GZ_TRAILER == <<"crc0", "crc1", "crc2", "crc3", "isize0", "isize1", "isize2", "isize3">>

gz_encode(bytes) == GZ_HEADER \o GZ_BLOCK \o bytes \o GZ_TRAILER

gz_decode(bytes) ==
    SubSeq(bytes, Len(GZ_HEADER) + Len(GZ_BLOCK) + 1, Len(bytes) - Len(GZ_TRAILER))

(***************************************************************************)
(* contains_gzip_encoding, over the tokens of the Accept-Encoding value.   *)
(***************************************************************************)
\* A negotiation that looks at the first token only.
first_encoding_only(encodings) ==
    encodings # <<>> /\ encodings[1] = SUPPORTED_ENCODING

contains_gzip_encoding(encodings) ==
    \E i \in 1..Len(encodings) : encodings[i] = SUPPORTED_ENCODING

(***************************************************************************)
(* The file system the server runs on.  A location is the sequence of the  *)
(* names from the root; Dirs are the directories, and the variable fs maps *)
(* the location of every regular file to its bytes.  DIR is the base       *)
(* directory given on the command line (env::args()[2]).                   *)
(***************************************************************************)
DIR == <<"/", "s", "r", "v">>
SLASH == <<"/">>
DOT == <<".">>
DOTDOT == <<".", ".">>

SrvLoc == <<<<"s", "r", "v">>>>
EtcLoc == <<<<"e", "t", "c">>>>
Dirs == {<<>>, SrvLoc, EtcLoc}

\* The location no path resolves to: a component of the path is missing or
\* is not a directory.
NoEnt == <<<<"?">>>>

Parent(loc) == IF loc = <<>> THEN <<>> ELSE SubSeq(loc, 1, Len(loc) - 1)

\* The kernel's walk of the components of a path from the location cur.
RECURSIVE Walk(_, _)
Walk(cur, comps) ==
    IF comps = <<>> THEN cur
    ELSE IF cur \notin Dirs THEN NoEnt
    ELSE LET c == Head(comps)
             next == IF c = <<>> \/ c = DOT THEN cur
                     ELSE IF c = DOTDOT THEN Parent(cur)
                     ELSE Append(cur, c)
         IN  Walk(next, Tail(comps))

\* The location an absolute path names.
Resolve(path) == Walk(<<>>, split(path, SLASH))

\* Path::new(dir).join(file_name): an absolute file_name replaces dir.
join(dir, file_name) ==
    IF starts_with(file_name, SLASH) THEN file_name
    ELSE IF dir # <<>> /\ dir[Len(dir)] = "/" THEN dir \o file_name
    ELSE dir \o SLASH \o file_name

IsUnder(loc, dir) == Len(loc) > Len(dir) /\ SubSeq(loc, 1, Len(dir)) = dir

\* A read that takes any bytes (fs::read and a lossy decoding).
read_ok_lossy(files, loc) == loc \in DOMAIN files

\* fs::read_to_string succeeds: a regular file whose bytes are valid UTF-8.
read_ok(files, loc) == loc \in DOMAIN files /\ is_utf8(files[loc])

\* File::create succeeds: the parent is a directory and the location is
\* not one.
create_ok(loc) == loc # NoEnt /\ loc \notin Dirs /\ Parent(loc) \in Dirs

\* The file at loc with the bytes given, created or replaced.
write_file(files, loc, bytes) ==
    [l \in DOMAIN files \cup {loc} |-> IF l = loc THEN bytes ELSE files[l]]

(***************************************************************************)
(* handle_connection, after the read: the route and the response bytes.    *)
(***************************************************************************)
\* Lines 87, 89, 112, 119, 130: the branch taken for a path.
route(path) ==
    IF path = ROOT THEN "root"
    ELSE IF starts_with(path, ECHO) THEN "echo"
    ELSE IF starts_with(path, FILES) THEN "files"
    ELSE IF path = USER_AGENT_PATH THEN "user-agent"
    ELSE "not_found"

\* Line 94.
echo_text(path) == trim_start_matches(path, ECHO_SLASH)

\* Lines 91-93 and 97.
wants_gzip(details) ==
    contains_gzip_encoding(split(get_or(details, ACCEPT_ENCODING, INVALID), COMMA_SP))

\* Lines 95-111.
echo_response(details) ==
    LET echo == echo_text(details[PATH])
    IN  IF wants_gzip(details)
        THEN LET compressed_data == gz_encode(as_bytes(echo))
             IN  RESP_200_TEXT \o HDR_GZIP \o HDR_LEN
                    \o to_string(Len(compressed_data)) \o CRLFCRLF \o compressed_data
        ELSE RESP_200_TEXT \o HDR_LEN \o to_string(len(echo)) \o CRLFCRLF
                    \o as_bytes(echo)

\* A /user-agent branch that answers 404 Not Found without a User-Agent.
user_agent_or_404(details) ==
    IF USER_AGENT \in DOMAIN details
    THEN RESP_200_TEXT \o HDR_LEN \o to_string(len(details[USER_AGENT])) \o CRLFCRLF
            \o as_bytes(details[USER_AGENT])
    ELSE RESP_404

\* Lines 120-129: no byte at all without a User-Agent.
user_agent_response(details) ==
    IF USER_AGENT \in DOMAIN details
    THEN RESP_200_TEXT \o HDR_LEN \o to_string(len(details[USER_AGENT])) \o CRLFCRLF
            \o as_bytes(details[USER_AGENT])
    ELSE <<>>

\* Lines 113-116: the location of the file a /files request names.
file_name(path) == trim_start_matches(path, FILES_SLASH)

file_path(path) == Resolve(join(DIR, file_name(path)))

\* Lines 144-158: GET on the files route.
get_file_response(files, loc) ==
    IF read_ok(files, loc)
    THEN LET file_contents == from_utf8_lossy(files[loc])
         IN  RESP_200_OCTET \o HDR_LEN \o to_string(len(file_contents)) \o CRLFCRLF
                \o as_bytes(file_contents)
    ELSE RESP_404

\* The response of every request that writes no file.
response(details, files) ==
    LET path == details[PATH]
        r == route(path)
    IN  IF r = "root" THEN RESP_200
        ELSE IF r = "echo" THEN echo_response(details)
        ELSE IF r = "files"
             THEN IF details[TYPE] = GET
                  THEN get_file_response(files, file_path(path))
                  ELSE RESP_404
        ELSE IF r = "user-agent" THEN user_agent_response(details)
        ELSE RESP_404

\* A files route that creates the file whatever the method.
is_on_files(details) == route(details[PATH]) = "files"

\* The request is a POST on the files route (lines 112 and 159).
is_post_file(details) ==
    route(details[PATH]) = "files" /\ details[TYPE] = POST


(***************************************************************************)
(* The state.                                                              *)
(*   conns  the connections accepted so far, in the order of accept; for   *)
(*          each one: data, the bytes its client sends, arrived, whether   *)
(*          they have reached the socket, and faulty, whether the peer may *)
(*          reset the connection; st, where its task is;                   *)
(*          buf, the bytes read (line 76); resp, the bytes written to the  *)
(*          socket (line 136); opened, the locations given to the file     *)
(*          system has read, created or truncated; panicked, whether the   *)
(*          task panicked; ioerr, whether a socket operation failed; log,  *)
(*          the socket operations in order.                                *)
(*   queue  the tasks pool.execute has queued and no worker has taken.     *)
(*   alive  the number of worker threads of the pool.                      *)
(*   fs     the regular files: location -> bytes.                          *)
(***************************************************************************)
VARIABLES conns, queue, alive, fs

vars == <<conns, queue, alive, fs>>

Ids == 1..Len(conns)

Busy == {c \in Ids : conns[c].st \in {"running", "read", "created"}}

NewConn(client) ==
    [data |-> client.data, arrived |-> client.arrived,
     faulty |-> client.faulty, st |-> "queued",
     buf |-> <<>>, resp |-> <<>>, opened |-> <<>>, panicked |-> FALSE,
     ioerr |-> FALSE, log |-> <<>>]

InitialFs ==
    (Append(SrvLoc, <<"f">>) :> <<"h", "i">>)
    @@ (Append(SrvLoc, <<"b">>) :> <<"xFF">>)
    @@ (Append(EtcLoc, <<"p", "w">>) :> <<"p", "w">>)

Init ==
    /\ conns = <<>>
    /\ queue = <<>>
    /\ alive = N_WORKERS
    /\ fs = InitialFs

\* A pool that does not replace the worker its task's panic kills.
no_respawn(n) == n - 1

\* threadpool's Sentinel::drop, run by a worker whose task panics: the
\* worker leaves the pool and spawn_in_pool starts its replacement.
sentinel_drop(n) == (n - 1) + 1

\* A panic of the task of connection c: unwinding drops (closes) the
\* stream, and the pool replaces the worker.
Panicked(c) ==
    /\ conns' = [conns EXCEPT ![c].st = "closed",
                              ![c].panicked = TRUE,
                              ![c].log = Append(@, "close")]
    /\ alive' = sentinel_drop(alive)

\* A socket operation of the task of connection c fails (the peer has
\* reset the connection): unwrap panics.  opened are the files the request
\* has read on its way.
IoFailed(c, opened) ==
    /\ conns[c].faulty
    /\ conns' = [conns EXCEPT ![c].st = "closed",
                              ![c].panicked = TRUE,
                              ![c].ioerr = TRUE,
                              ![c].opened = @ \o opened,
                              ![c].log = Append(@, "close")]
    /\ alive' = sentinel_drop(alive)

\* A handler that keeps the connection open after the response and reads
\* the next request on it.
respond_keep_alive(c, bytes, opened) ==
    /\ conns' = [conns EXCEPT ![c].st = "running",
                              ![c].resp = @ \o bytes,
                              ![c].opened = @ \o opened,
                              ![c].log = Append(@, "write")]
    /\ alive' = alive

\* Lines 136-137: write_all of the response, then the stream is dropped.
Respond(c, bytes, opened) ==
    \/ /\ conns' = [conns EXCEPT ![c].st = "closed",
                                 ![c].resp = bytes,
                                 ![c].opened = @ \o opened,
                                 ![c].log = @ \o <<"write", "close">>]
       /\ alive' = alive
    \/ IoFailed(c, opened)

\* Lines 27-36: main accepts the next connection and queues its task.
\* A client is the bytes it sends, whether they are already there, and
\* whether it may reset the connection.
AcceptFrom(clients, limit) ==
    /\ Len(conns) < limit
    /\ \E client \in clients : conns' = Append(conns, NewConn(client))
    /\ queue' = Append(queue, Len(conns) + 1)
    /\ UNCHANGED <<alive, fs>>

\* The client's request reaches the socket.
ClientSend(c) ==
    /\ conns[c].st # "closed"
    /\ ~conns[c].arrived
    /\ conns' = [conns EXCEPT ![c].arrived = TRUE]
    /\ UNCHANGED <<queue, alive, fs>>

\* A pool that starts a thread for every task, whatever the number of
\* tasks that are running.
take_on_new_thread ==
    /\ queue # <<>>
    /\ conns' = [conns EXCEPT ![Head(queue)].st = "running"]
    /\ queue' = Tail(queue)
    /\ UNCHANGED <<alive, fs>>

\* An idle worker takes the oldest queued task.
Take ==
    /\ queue # <<>>
    /\ Cardinality(Busy) < alive
    /\ conns' = [conns EXCEPT ![Head(queue)].st = "running"]
    /\ queue' = Tail(queue)
    /\ UNCHANGED <<alive, fs>>

\* A read into a buffer that all the tasks share: the bytes are those of
\* the first connection.
shared_buffer_read(streams, c) ==
    SubSeq(streams[1].data, 1, Min(Len(streams[1].data), BUFFER_SIZE))

\* Lines 75-76: stream.read(&mut buffer) on the stream of connection c
\* fills the task's own buffer with at most BUFFER_SIZE of the bytes the
\* client has sent.
stream_read(streams, c) ==
    SubSeq(streams[c].data, 1, Min(Len(streams[c].data), BUFFER_SIZE))

\* Lines 75-78: one read into the buffer, which blocks until the client's
\* bytes are there.  It returns at most BUFFER_SIZE bytes, or an error
\* that unwrap turns into a panic.
Read(c) ==
    /\ conns[c].st = "running"
    /\ conns[c].arrived
    /\ \/ /\ conns' = [conns EXCEPT
                ![c].st = "read",
                ![c].buf = stream_read(conns, c),
                ![c].log = Append(@, "read")]
          /\ alive' = alive
       \/ IoFailed(c, <<>>)
    /\ UNCHANGED <<queue, fs>>

\* The request the task of connection c has read, as line 78 decodes it.
RequestStr(c) == from_utf8_lossy(conns[c].buf)

\* Line 145: the files a GET on the files route reads.
files_read(details, files) ==
    IF route(details[PATH]) = "files" /\ details[TYPE] = GET
          /\ file_path(details[PATH]) \in DOMAIN files
    THEN <<file_path(details[PATH])>>
    ELSE <<>>

\* Lines 80-137 for every request but a POST on the files route: parse,
\* route, build the response and write it.
Handle(c) ==
    /\ conns[c].st = "read"
    /\ \E request_str \in {RequestStr(c)} :
          IF parse_panics(request_str)
          THEN Panicked(c)
          ELSE \E details \in {parse_request(request_str)} :
                  /\ ~is_post_file(details)
                  /\ \E bytes \in {response(details, fs)},
                        opened \in {files_read(details, fs)} :
                          Respond(c, bytes, opened)
    /\ UNCHANGED <<queue, fs>>

\* Lines 80-118 and 160 for a POST on the files route: File::create makes
\* or truncates the file; when it cannot, unwrap panics.
Create(c) ==
    /\ conns[c].st = "read"
    /\ \E request_str \in {RequestStr(c)} :
          /\ ~parse_panics(request_str)
          /\ \E details \in {parse_request(request_str)} :
                /\ is_post_file(details)
                /\ \E loc \in {file_path(details[PATH])} :
                      IF create_ok(loc)
                      THEN /\ fs' = write_file(fs, loc, <<>>)
                           /\ conns' = [conns EXCEPT ![c].st = "created",
                                                     ![c].opened = <<loc>>]
                           /\ alive' = alive
                      ELSE /\ Panicked(c)
                           /\ fs' = fs
    /\ UNCHANGED queue

\* Lines 161-163 and 136: the Body is written to the file and 201 Created
\* is the response; without a Body, unwrap panics.
WriteFile(c) ==
    /\ conns[c].st = "created"
    /\ \E details \in {parse_request(RequestStr(c))} :
          IF BODY \in DOMAIN details
          THEN /\ fs' = write_file(fs, conns[c].opened[1], as_bytes(details[BODY]))
               /\ Respond(c, RESP_201, <<>>)
          ELSE /\ Panicked(c)
               /\ fs' = fs
    /\ UNCHANGED queue

(***************************************************************************)
(* The requests of the clients.                                            *)
(***************************************************************************)
Line(k, v) == k \o COLON_SP \o v

\* METHOD SP PATH SP VERSION CRLF (line CRLF)* CRLF body
Request(method, path, lines, body) ==
    method \o SP \o path \o SP \o HTTP11 \o CRLF
        \o Flatten([i \in 1..Len(lines) |-> lines[i] \o CRLF]) \o CRLF \o body

PUT == <<"P", "U", "T">>
Methods == {GET, POST, PUT}

EchoPaths ==
    {ECHO_SLASH \o <<"a", "b">>, ECHO_SLASH, ECHO, ECHO \o <<"a", "b">>,
     ECHO_SLASH \o ECHO_SLASH \o <<"a">>, ECHO_SLASH \o <<"xFF">>}

FilePaths ==
    {FILES_SLASH \o <<"f">>, FILES_SLASH \o <<"g">>, FILES_SLASH \o <<"b">>,
     FILES_SLASH, FILES, FILES \o <<"x">>,
     FILES_SLASH \o <<".", ".", "/", "e", "t", "c", "/", "p", "w">>,
     FILES_SLASH \o <<".", ".", "/", "x">>,
     FILES_SLASH \o <<"/", "e", "t", "c", "/", "p", "w">>,
     FILES_SLASH \o <<"n", "o", "/", "x">>}

OtherPaths ==
    {ROOT, USER_AGENT_PATH, USER_AGENT_PATH \o <<"x">>,
     <<"/", "n", "o", "n", "s", "e", "n", "s", "e">>,
     <<"/", "x">> \o ECHO_SLASH \o <<"a">>}

Paths == EchoPaths \cup FilePaths \cup OtherPaths

GZIP == SUPPORTED_ENCODING
DEFLATE == <<"d", "e", "f", "l", "a", "t", "e">>
BR == <<"b", "r">>

EncodingLines ==
    {<<Line(ACCEPT_ENCODING, GZIP)>>,
     <<Line(ACCEPT_ENCODING, DEFLATE \o COMMA_SP \o GZIP)>>,
     <<Line(ACCEPT_ENCODING, DEFLATE \o COMMA_SP \o BR)>>,
     <<Line(ACCEPT_ENCODING, <<"G", "z", "i", "p">>)>>,
     <<Line(ACCEPT_ENCODING, GZIP \o <<",">> \o DEFLATE)>>,
     <<Line(ACCEPT_ENCODING, GZIP \o <<";", "q", "=", "1">>)>>,
     <<Line(ACCEPT_ENCODING, GZIP), Line(ACCEPT_ENCODING, BR)>>,
     <<Line(ACCEPT_ENCODING, BR), Line(ACCEPT_ENCODING, GZIP)>>,
     <<Line(ACCEPT_ENCODING, <<"a", ":", " ", "b">> \o COMMA_SP \o GZIP)>>,
     <<Line(<<"a", "c", "c", "e", "p", "t", "-", "e", "n", "c", "o", "d", "i", "n", "g">>, GZIP)>>}

HeaderLines ==
    {<<>>,
     <<Line(USER_AGENT, <<"f", "o", "o">>)>>,
     <<Line(USER_AGENT, <<"f", "o", "o">>), Line(USER_AGENT, <<"b", "a", "r">>)>>,
     <<Line(USER_AGENT, <<"a", ":", " ", "b">>)>>,
     <<Line(<<"K">>, <<"v">>), Line(<<"K">>, <<"w", ":", " ", "x">>)>>,
     <<Line(PATH, ECHO_SLASH \o <<"z">>)>>,
     <<Line(PATH, ROOT)>>,
     <<Line(TYPE, POST)>>,
     <<Line(VERSION, <<"9">>)>>,
     <<Line(BODY, <<"b">>)>>,
     <<<<"n", "o", "c", "o", "l", "o", "n">>>>}
        \cup EncodingLines

Bodies ==
    {<<>>, <<"h", "i">>, <<"a", ":", " ", "b">>, <<"x", "\r", "\n", "y">>,
     <<"h", "xFF">>}

\* A request longer than the buffer.
LongRequest == Request(GET, ROOT, <<>>, [i \in 1..(BUFFER_SIZE - 12) |-> "z"])

\* Requests that are not of the wire format.
RawRequests ==
    {<<>>, GET, GET \o SP \o ROOT, LongRequest,
     GET \o SP \o ROOT \o SP \o HTTP11 \o CRLF \o Line(BODY, <<"b">>),
     GET \o SP \o ROOT \o SP \o HTTP11 \o CRLFCRLF \o Line(BODY, <<"b">>),
     GET \o SP \o ROOT \o SP \o HTTP11,
     GET \o SP \o SP \o ROOT \o SP \o HTTP11 \o CRLFCRLF,
     GET \o SP \o ROOT \o SP \o ECHO_SLASH \o <<"a">> \o SP \o HTTP11 \o CRLFCRLF,
     POST \o SP \o FILES_SLASH \o <<"f">> \o SP \o HTTP11,
     POST \o SP \o FILES_SLASH \o <<"g">> \o SP \o HTTP11 \o CRLF \o Line(<<"K">>, <<"v">>),
     POST \o SP \o FILES_SLASH \o <<"f">> \o CRLFCRLF \o <<"h", "i">>}

AllRequests ==
    {Request(m, p, <<>>, <<>>) : m \in Methods, p \in Paths}
        \cup {Request(GET, p, l, <<>>) : p \in EchoPaths, l \in EncodingLines}
        \cup {Request(m, p, l, b) :
                m \in {GET, POST},
                p \in {ROOT, USER_AGENT_PATH, ECHO_SLASH \o <<"a", "b">>,
                       FILES_SLASH \o <<"f">>, <<"/", "n", "o", "n", "s", "e", "n", "s", "e">>},
                l \in HeaderLines, b \in {<<>>, <<"h", "i">>}}
        \cup {Request(POST, p, <<>>, b) : p \in FilePaths, b \in Bodies}
        \cup RawRequests

(***************************************************************************)
(* Spec: the server and one connection, whose request is any of            *)
(* AllRequests.                                                            *)
(***************************************************************************)
\* A client that sends its request after it has connected.
Sends(requests) ==
    {[data |-> r, arrived |-> FALSE, faulty |-> f] : r \in requests, f \in BOOLEAN}

Accept == AcceptFrom(Sends(AllRequests), 1)

Next ==
    \/ Accept
    \/ Take
    \/ \E c \in Ids : ClientSend(c)
    \/ \E c \in Ids : Read(c)
    \/ \E c \in Ids : Handle(c)
    \/ \E c \in Ids : Create(c)
    \/ \E c \in Ids : WriteFile(c)

Spec == Init /\ [][Next]_vars

\* The steps of the workers.
PoolWork ==
    \/ Take
    \/ \E c \in Ids : Read(c)
    \/ \E c \in Ids : Handle(c)
    \/ \E c \in Ids : Create(c)
    \/ \E c \in Ids : WriteFile(c)

\* The threads of the pool are scheduled: as long as a worker can take a
\* task or a task can take its next step, one of them does.
FairSpec == Spec /\ WF_vars(PoolWork)

(***************************************************************************)
(* SeqSpec: one client that sends requests on the files route one after    *)
(* the other, each on a connection of its own, opened when the connection  *)
(* before it is closed.                                                    *)
(***************************************************************************)
SeqConns == 2

FileNames == {<<"f">>, <<"g">>, <<"n", "o", "/", "x">>}

PostFile(name, body) == Request(POST, FILES_SLASH \o name, <<>>, body)

GetFile(name) == Request(GET, FILES_SLASH \o name, <<>>, <<>>)

SeqRequests ==
    {PostFile(n, b) : n \in FileNames, b \in Bodies} \cup {GetFile(n) : n \in FileNames}

SeqAccept ==
    /\ \A c \in Ids : conns[c].st = "closed"
    /\ AcceptFrom(Sends(SeqRequests), SeqConns)

SeqNext ==
    \/ SeqAccept
    \/ Take
    \/ \E c \in Ids : ClientSend(c)
    \/ \E c \in Ids : Read(c)
    \/ \E c \in Ids : Handle(c)
    \/ \E c \in Ids : Create(c)
    \/ \E c \in Ids : WriteFile(c)

SeqSpec == Init /\ [][SeqNext]_vars

(***************************************************************************)
(* EchoSpec: connections that all ask for an echo, each of a text of its   *)
(* own, handled by the pool at the same time.                              *)
(***************************************************************************)
MaxConns == 6

EchoText(c) == [i \in 1..c |-> Digit(c % 10)]

EchoRequest(c) == Request(GET, ECHO_SLASH \o EchoText(c), <<>>, <<>>)

EchoClient(c) == [data |-> EchoRequest(c), arrived |-> FALSE, faulty |-> FALSE]

EchoAccept == AcceptFrom({EchoClient(Len(conns) + 1)}, MaxConns)

EchoNext ==
    \/ EchoAccept
    \/ Take
    \/ \E c \in Ids : ClientSend(c)
    \/ \E c \in Ids : Read(c)
    \/ \E c \in Ids : Handle(c)

EchoSpec == Init /\ [][EchoNext]_vars

(***************************************************************************)
(* PoolSpec: more connections than the pool has workers, among them the    *)
(* connections whose handling fails.  The client of connection c has sent  *)
(* its request when the connection is accepted, or it never sends          *)
(* anything (Silent).  Its request is, in turn with c: a request line of   *)
(* two tokens, a POST without a Body, an echo, an echo on a connection     *)
(* that the peer may reset, a POST to a directory that does not exist, an  *)
(* echo.                                                                   *)
(***************************************************************************)
PoolClient(c) ==
    LET k == c % 6
    IN  IF k = 1 THEN [data |-> GET \o SP \o ROOT, arrived |-> TRUE, faulty |-> FALSE]
        ELSE IF k = 2
             THEN [data |-> POST \o SP \o FILES_SLASH \o <<"g">> \o SP \o HTTP11,
                   arrived |-> TRUE, faulty |-> FALSE]
        ELSE IF k = 4
             THEN [data |-> EchoRequest(c), arrived |-> TRUE, faulty |-> TRUE]
        ELSE IF k = 5
             THEN [data |-> PostFile(<<"n", "o", "/", "x">>, <<"h", "i">>),
                   arrived |-> TRUE, faulty |-> FALSE]
        ELSE [data |-> EchoRequest(c), arrived |-> TRUE, faulty |-> FALSE]

\* The client that never sends.
Silent == [data |-> <<>>, arrived |-> FALSE, faulty |-> FALSE]

PoolAccept == AcceptFrom({PoolClient(Len(conns) + 1), Silent}, MaxConns)

PoolNext ==
    \/ PoolAccept
    \/ Take
    \/ \E c \in Ids : Read(c)
    \/ \E c \in Ids : Handle(c)
    \/ \E c \in Ids : Create(c)
    \/ \E c \in Ids : WriteFile(c)

PoolSpec == Init /\ [][PoolNext]_vars

FairPoolSpec == PoolSpec /\ WF_vars(PoolWork)

(***************************************************************************)
(* RaceSpec: connections handled at the same time that read and write the  *)
(* same files: a GET or a POST, with one of two bodies, on /files/f, which *)
(* exists, or on /files/g, which does not.  The requests have arrived when *)
(* the connections are accepted and no socket operation fails.             *)
(***************************************************************************)
RaceConns == 3

RaceNames == {<<"f">>, <<"g">>}

RaceBodies == {<<"y", "o">>, <<"a", "b", "c">>}

RaceRequests ==
    {GetFile(n) : n \in RaceNames} \cup {PostFile(n, b) : n \in RaceNames, b \in RaceBodies}

RaceAccept ==
    AcceptFrom({[data |-> r, arrived |-> TRUE, faulty |-> FALSE] : r \in RaceRequests},
               RaceConns)

RaceNext ==
    \/ RaceAccept
    \/ Take
    \/ \E c \in Ids : Read(c)
    \/ \E c \in Ids : Handle(c)
    \/ \E c \in Ids : Create(c)
    \/ \E c \in Ids : WriteFile(c)

RaceSpec == Init /\ [][RaceNext]_vars

(***************************************************************************)
(* What a client sees of a connection, and the parts of a response.        *)
(***************************************************************************)
\* The task of connection c has finished and no socket operation failed.
Finished(c) == conns[c].st = "closed" /\ ~conns[c].ioerr

\* The read of connection c has returned.
WasRead(c) == conns[c].log # <<>> /\ conns[c].log[1] = "read"

\* The request line of connection c has three tokens or more.
Parsed(c) == WasRead(c) /\ ~parse_panics(RequestStr(c))

Details(c) == parse_request(RequestStr(c))

\* The tokens of the request line, as the client sent them.
RequestLine(c) == split(Head(split(RequestStr(c), CRLF)), SP)

\* The lines that follow the request line.
RequestLines(c) == Tail(split(RequestStr(c), CRLF))

\* The three digits of the status of a response.
Status(bytes) == SubSeq(bytes, 10, 12)

\* The status line and the header lines of a response, and its body.
ResponseLines(bytes) == split(SubSeq(bytes, 1, Find(bytes, CRLFCRLF) - 1), CRLF)

ResponseBody(bytes) == Drop(bytes, Find(bytes, CRLFCRLF) + Len(CRLFCRLF) - 1)

HasLine(bytes, line) ==
    \E i \in 2..Len(ResponseLines(bytes)) : ResponseLines(bytes)[i] = line

(***************************************************************************)
(* C1.  Whatever connections came before, failed ones included, the pool   *)
(* has N_WORKERS workers and every connection whose client has sent a      *)
(* well-formed request is eventually handled and answered.                 *)
(***************************************************************************)
\* The bytes are a request the server can serve: a request line of three
\* tokens and, for a POST on the files route, a Body and a path that can
\* be created.
WellFormed(bytes) ==
    /\ ~parse_panics(from_utf8_lossy(bytes))
    /\ LET details == parse_request(from_utf8_lossy(bytes))
       IN  is_post_file(details) =>
               /\ BODY \in DOMAIN details
               /\ create_ok(file_path(details[PATH]))

\* The client of connection c has sent a well-formed request.
Served(c) == c \in Ids /\ conns[c].arrived /\ WellFormed(conns[c].data)

\* Connection c has been handled: its response is written, unless the peer
\* has reset the connection.
Answered(c) ==
    /\ c \in Ids
    /\ conns[c].st = "closed"
    /\ conns[c].ioerr \/ (~conns[c].panicked /\ conns[c].resp # <<>>)

\* The tasks blocked in the read of a connection whose client has sent
\* nothing.
Stalled == {c \in Ids : conns[c].st = "running" /\ ~conns[c].arrived}

\* Every connection whose client has sent a well-formed request has been
\* answered.  A request once sent stays sent and the connections only grow
\* in number, so "again and again AllAnswered" says of each connection that
\* its request leads to its answer.
AllAnswered == \A c \in Ids : Served(c) => Answered(c)

Malformed(c) ==
    \/ parse_panics(RequestStr(c))
    \/ is_post_file(Details(c)) /\ BODY \notin DOMAIN Details(c)

C2_MalformedGetsErrorResponse ==
    \A c \in Ids :
        (Finished(c) /\ WasRead(c)) =>
            /\ ~conns[c].panicked
            /\ conns[c].resp # <<>>
            /\ Malformed(c) => conns[c].resp[10] \in {"4", "5"}

(***************************************************************************)
(* C3.  Every file a request on the files route reads, creates or          *)
(* truncates lies under the base directory.                                *)
(***************************************************************************)
BaseLoc == Resolve(DIR)

C3_FilesUnderBaseDirectory ==
    \A c \in Ids :
        \A i \in 1..Len(conns[c].opened) : IsUnder(conns[c].opened[i], BaseLoc)

(***************************************************************************)
(* C4.  A request whose Path is none of "/", /echo/{text}, /files/{name}   *)
(* and "/user-agent" is answered with exactly the 404 response and touches *)
(* no file.                                                                *)
(***************************************************************************)
KnownPath(path) ==
    \/ path = ROOT
    \/ starts_with(path, ECHO_SLASH)
    \/ starts_with(path, FILES_SLASH)
    \/ path = USER_AGENT_PATH

C4_UnknownPathIs404 ==
    \A c \in Ids :
        (Finished(c) /\ Parsed(c) /\ ~KnownPath(Details(c)[PATH])) =>
            /\ conns[c].resp = RESP_404
            /\ conns[c].opened = <<>>
            /\ fs = InitialFs

(***************************************************************************)
(* C5.  When the request line has exactly three tokens, the details map    *)
(* Type, Path and Version to them, whatever lines follow, and the route is *)
(* the route of the Path token.                                            *)
(***************************************************************************)
C5_RequestLineVerbatim ==
    \A c \in Ids :
        (Finished(c) /\ WasRead(c) /\ Len(RequestLine(c)) = 3) =>
            /\ Details(c)[TYPE] = RequestLine(c)[1]
            /\ Details(c)[PATH] = RequestLine(c)[2]
            /\ Details(c)[VERSION] = RequestLine(c)[3]
            /\ route(Details(c)[PATH]) = route(RequestLine(c)[2])

(***************************************************************************)
(* C6.  Every line K: V after the request line is in the details as K -> V *)
(* (K ends at the first ": " of the line, V is the rest and may hold       *)
(* another ": "); of several lines with the same K the last one counts.    *)
(***************************************************************************)
IsKV(line) == Find(line, COLON_SP) # 0

KeyOf(line) == SubSeq(line, 1, Find(line, COLON_SP) - 1)

ValueOf(line) == Drop(line, Find(line, COLON_SP) + Len(COLON_SP) - 1)

C6_HeaderLinesMapped ==
    \A c \in Ids :
        (Finished(c) /\ Parsed(c)) =>
            \A i \in 1..Len(RequestLines(c)) :
                LET line == RequestLines(c)[i]
                    last == \A j \in (i + 1)..Len(RequestLines(c)) :
                                ~(IsKV(RequestLines(c)[j])
                                    /\ KeyOf(RequestLines(c)[j]) = KeyOf(line))
                IN  (IsKV(line) /\ last) =>
                        /\ KeyOf(line) \in DOMAIN Details(c)
                        /\ Details(c)[KeyOf(line)] = ValueOf(line)

(***************************************************************************)
(* C7.  A POST /files/{name} with body B is answered 201 Created, and the  *)
(* GET /files/{name} that follows it, with no write in between, is         *)
(* answered 200 OK with the body B and the Content-Length of B's length.   *)
(***************************************************************************)
FileResponse(B) ==
    RESP_200_OCTET \o HDR_LEN \o to_string(Len(B)) \o CRLFCRLF \o B

\* The names of one component: the file is created in the base directory.
PlainNames == {name \in FileNames : Find(name, SLASH) = 0}

C7_PostThenGet ==
    \A p \in Ids, name \in PlainNames, B \in Bodies :
        LET g == p + 1
        IN  (/\ g \in Ids
             /\ Finished(p) /\ conns[p].data = PostFile(name, B)
             /\ Finished(g) /\ conns[g].data = GetFile(name)) =>
                /\ conns[p].resp = RESP_201
                /\ conns[g].resp = FileResponse(B)

(***************************************************************************)
(* C8.  On the echo route the text echoed is the Path without one leading  *)
(* "/echo/", and nothing else is removed.                                  *)
(***************************************************************************)
StripOnce(path, prefix) ==
    IF starts_with(path, prefix) THEN Drop(path, Len(prefix)) ELSE path

\* The text a response of the echo route carries, decompressed when the
\* response is compressed.
EchoedBytes(bytes) ==
    IF HasLine(bytes, SubSeq(HDR_GZIP, 1, Len(HDR_GZIP) - Len(CRLF)))
    THEN gz_decode(ResponseBody(bytes))
    ELSE ResponseBody(bytes)

OnEcho(c) ==
    Finished(c) /\ Parsed(c) /\ starts_with(Details(c)[PATH], ECHO)

C8_EchoStripsOnePrefix ==
    \A c \in Ids :
        OnEcho(c) =>
            EchoedBytes(conns[c].resp) = as_bytes(StripOnce(Details(c)[PATH], ECHO_SLASH))

(***************************************************************************)
(* C9.  On the echo route the response has the line Content-Encoding: gzip *)
(* and a gzip body exactly when a token of the Accept-Encoding value,      *)
(* split on ", ", is "gzip"; otherwise it has no Content-Encoding line and *)
(* its body is the echo text.                                              *)
(***************************************************************************)
ContentEncodingGzip == <<"C", "o", "n", "t", "e", "n", "t", "-", "E", "n", "c", "o", "d", "i", "n", "g", ":", " ", "g", "z", "i", "p">>

HasContentEncoding(bytes) ==
    \E i \in 2..Len(ResponseLines(bytes)) :
        starts_with(ResponseLines(bytes)[i], SubSeq(ContentEncodingGzip, 1, 17))

AcceptsGzip(c) ==
    /\ ACCEPT_ENCODING \in DOMAIN Details(c)
    /\ LET tokens == split(Details(c)[ACCEPT_ENCODING], COMMA_SP)
       IN  \E i \in 1..Len(tokens) : tokens[i] = <<"g", "z", "i", "p">>

C9_GzipIffTokenGzip ==
    \A c \in Ids :
        OnEcho(c) =>
            LET text == as_bytes(echo_text(Details(c)[PATH]))
                bytes == conns[c].resp
            IN  IF AcceptsGzip(c)
                THEN /\ HasLine(bytes, ContentEncodingGzip)
                     /\ ResponseBody(bytes) # text
                     /\ gz_decode(ResponseBody(bytes)) = text
                     /\ ResponseBody(bytes) = gz_encode(text)
                ELSE /\ ~HasContentEncoding(bytes)
                     /\ ResponseBody(bytes) = text

C9_Witness ==
    \E c \in Ids :
        /\ OnEcho(c)
        /\ AcceptsGzip(c)
        /\ Len(split(Details(c)[ACCEPT_ENCODING], COMMA_SP)) > 1
        /\ HasLine(conns[c].resp, ContentEncodingGzip)

(***************************************************************************)
(* C10.  Connections handled at the same time, each asking for the echo of *)
(* a text of its own: under every interleaving of the workers each gets    *)
(* 200 OK with its own text and that text's length, and nothing of another *)
(* connection's request.                                                   *)
(***************************************************************************)
EchoResponse(text) ==
    RESP_200_TEXT \o HDR_LEN \o to_string(Len(text)) \o CRLFCRLF \o text

C10_EchoOwnTextOnly ==
    \A c \in Ids :
        (Finished(c) /\ conns[c].data = EchoRequest(c)) =>
            /\ conns[c].resp = EchoResponse(EchoText(c))
            /\ \A d \in Ids \ {c} :
                    Find(ResponseBody(conns[c].resp), EchoText(d)) = 0

\* All the workers are busy, and a connection is answered while one accepted
\* before it is still being handled.
C10_Witness ==
    /\ Cardinality(Busy) = N_WORKERS
    /\ \E c, d \in Ids :
        /\ c < d
        /\ conns[c].st = "read" /\ conns[c].data = EchoRequest(c)
        /\ Finished(d) /\ conns[d].resp = EchoResponse(EchoText(d))

(***************************************************************************)
(* C11.  On every connection the socket operations are, in this order and  *)
(* at most once each: one read of at most BUFFER_SIZE bytes, one write of  *)
(* the response, the close; and every connection whose read has returned   *)
(* is eventually closed, also when its handling fails.                     *)
(***************************************************************************)
Rank(op) == IF op = "read" THEN 1 ELSE IF op = "write" THEN 2 ELSE 3

\* The operations of the log are in the order read, write, close, none of
\* them twice, and a write comes after a read.
LogInOrder(log) ==
    /\ \A i \in 1..Len(log) : log[i] \in {"read", "write", "close"}
    /\ \A i, j \in 1..Len(log) : i < j => Rank(log[i]) < Rank(log[j])
    /\ \A j \in 1..Len(log) : log[j] = "write" => j > 1 /\ log[j - 1] = "read"

OneRead(c) ==
    /\ Len(conns[c].buf) <= BUFFER_SIZE
    /\ conns[c].buf = SubSeq(conns[c].data, 1, Len(conns[c].buf))
    /\ conns[c].st = "closed" <=>
            (conns[c].log # <<>> /\ conns[c].log[Len(conns[c].log)] = "close")

AllReadClosed == \A c \in Ids : WasRead(c) => conns[c].st = "closed"

C11_OneRequestPerConnection ==
    /\ [](\A c \in Ids : LogInOrder(conns[c].log) /\ OneRead(c))
    /\ []<>AllReadClosed

\* A request longer than the buffer has been read, answered and closed.
C11_Witness ==
    \E c \in Ids :
        /\ Len(conns[c].data) > BUFFER_SIZE
        /\ Len(conns[c].buf) = BUFFER_SIZE
        /\ conns[c].log = <<"read", "write", "close">>

(***************************************************************************)
(* C12.  While all the workers are busy the server accepts no connection:  *)
(* the connections accepted and not yet finished are never more than       *)
(* N_WORKERS.                                                              *)
(***************************************************************************)
Unfinished == {c \in Ids : conns[c].st # "closed"}

C12_AcceptedWithinPool == Cardinality(Unfinished) <= N_WORKERS

(***************************************************************************)
(* C13.  At most N_WORKERS tasks run at the same time, no more tasks than  *)
(* there are workers (a worker runs one task at a time), and the pool has  *)
(* N_WORKERS workers in every state, also after a task has failed.         *)
(***************************************************************************)
C13_FixedPool ==
    /\ Cardinality(Busy) <= N_WORKERS
    /\ Cardinality(Busy) <= alive
    /\ alive = N_WORKERS

\* All the workers are busy after a task has panicked.
C13_Witness ==
    /\ Cardinality(Busy) = N_WORKERS
    /\ \E c \in Ids : conns[c].panicked /\ ~conns[c].ioerr

(***************************************************************************)
(* C14.  A request whose Path is "/user-agent" and that has no User-Agent  *)
(* gets no byte at all: nothing is written on its connection.              *)
(***************************************************************************)
NoUserAgent(c) ==
    /\ Finished(c) /\ Parsed(c)
    /\ Details(c)[PATH] = USER_AGENT_PATH
    /\ USER_AGENT \notin DOMAIN Details(c)

C14_NoUserAgentNoBytes ==
    \A c \in Ids : NoUserAgent(c) => conns[c].resp = <<>> /\ ~conns[c].panicked

C14_Witness ==
    \E c \in Ids :
        /\ NoUserAgent(c)
        /\ conns[c].resp = <<>>
        /\ conns[c].log = <<"read", "write", "close">>

(***************************************************************************)
(* C15.  Only a POST whose Path starts with /files changes the file        *)
(* system: every other request leaves every file as it was, and a method   *)
(* other than GET and POST on /files is answered 404 Not Found.            *)
(***************************************************************************)
PostOnFiles(c) ==
    /\ Parsed(c)
    /\ starts_with(Details(c)[PATH], FILES)
    /\ Details(c)[TYPE] = POST

C15_OnlyPostOnFilesWrites ==
    \A c \in Ids :
        /\ (\A d \in Ids : ~PostOnFiles(d)) => fs = InitialFs
        /\ (/\ Finished(c) /\ Parsed(c)
            /\ starts_with(Details(c)[PATH], FILES)
            /\ Details(c)[TYPE] \notin {GET, POST}) => conns[c].resp = RESP_404

\* A GET and a PUT on the files route have been answered.
C15_Witness ==
    \E c \in Ids :
        /\ Finished(c) /\ Parsed(c)
        /\ starts_with(Details(c)[PATH], FILES_SLASH \o <<"f">>)
        /\ Details(c)[TYPE] = PUT
        /\ conns[c].resp = RESP_404
        /\ fs = InitialFs

(***************************************************************************)
(* C16.  A GET on the files route is answered 200 OK, with the content     *)
(* type application/octet-stream and the file's content as the body,       *)
(* exactly when the file can be read as text; otherwise (no such file, not *)
(* readable, not valid UTF-8) it is answered 404 Not Found with no body,   *)
(* and the task does not panic.                                            *)
(***************************************************************************)
GetOnFiles(c) ==
    /\ Finished(c) /\ Parsed(c)
    /\ starts_with(Details(c)[PATH], FILES)
    /\ Details(c)[TYPE] = GET

OctetStream == <<"C", "o", "n", "t", "e", "n", "t", "-", "T", "y", "p", "e", ":", " ", "a", "p", "p", "l", "i", "c", "a", "t", "i", "o", "n", "/", "o", "c", "t", "e", "t", "-", "s", "t", "r", "e", "a", "m">>

ReadableAsText(loc) == loc \in DOMAIN fs /\ is_utf8(fs[loc])

C16_GetFile200Or404 ==
    \A c \in Ids :
        GetOnFiles(c) =>
            /\ ~conns[c].panicked
            /\ LET loc == file_path(Details(c)[PATH])
                   bytes == conns[c].resp
               IN  IF ReadableAsText(loc)
                   THEN /\ Status(bytes) = <<"2", "0", "0">>
                        /\ HasLine(bytes, OctetStream)
                        /\ ResponseBody(bytes) = fs[loc]
                   ELSE bytes = RESP_404

\* A file that is not valid UTF-8 has been asked for, and a file that is.
C16_Witness ==
    \E c \in Ids :
        /\ GetOnFiles(c)
        /\ file_path(Details(c)[PATH]) \in DOMAIN fs
        /\ ~ReadableAsText(file_path(Details(c)[PATH]))
        /\ conns[c].resp = RESP_404

(***************************************************************************)
(* C17.  A response with a Content-Length line has a body of exactly that  *)
(* many bytes, and a response without one has an empty body.               *)
(***************************************************************************)
\* The values of the Content-Length lines of a response.
ContentLengths(bytes) ==
    {Drop(ResponseLines(bytes)[i], Len(HDR_LEN)) :
        i \in {j \in 2..Len(ResponseLines(bytes)) :
                    starts_with(ResponseLines(bytes)[j], HDR_LEN)}}

C17_ContentLengthIsBodyLength ==
    \A c \in Ids :
        (Finished(c) /\ conns[c].resp # <<>>) =>
            LET bytes == conns[c].resp
            IN  /\ Find(bytes, CRLFCRLF) # 0
                /\ IF ContentLengths(bytes) = {}
                   THEN ResponseBody(bytes) = <<>>
                   ELSE ContentLengths(bytes) = {to_string(Len(ResponseBody(bytes)))}

\* An echo of a character of three bytes.
C17_Witness ==
    \E c \in Ids :
        /\ OnEcho(c)
        /\ echo_text(Details(c)[PATH]) = <<"uFFFD">>
        /\ ContentLengths(conns[c].resp) = {<<"3">>}
        /\ Len(ResponseBody(conns[c].resp)) = 3

(***************************************************************************)
(* C18.  The details have the key Body exactly when a line after the       *)
(* request line splits on ": " into one part, and its value is the last    *)
(* such line; a line that splits into three parts or more leaves the       *)
(* details as they were.                                                   *)
(***************************************************************************)
Parts(line) == Len(split(line, COLON_SP))

\* The details after the request line and the first n lines that follow.
DetailsAfter(c, n) ==
    parse_lines(parse_first_line(Head(split(RequestStr(c), CRLF))),
                SubSeq(RequestLines(c), 1, n))

C18_BodyIsLastPlainLine ==
    \A c \in Ids :
        Parsed(c) =>
            LET lines == RequestLines(c)
                plain == {i \in 1..Len(lines) : Parts(lines[i]) = 1}
            IN  /\ BODY \in DOMAIN Details(c) <=> plain # {}
                /\ plain # {} =>
                        Details(c)[BODY]
                            = lines[CHOOSE i \in plain : \A j \in plain : j <= i]
                /\ \A i \in 1..Len(lines) :
                        Parts(lines[i]) >= 3 => DetailsAfter(c, i) = DetailsAfter(c, i - 1)

(***************************************************************************)
(* C19.  A POST on the files route that is not answered 201 Created leaves *)
(* every file that existed with the content it had.                        *)
(***************************************************************************)
C19_FailedPostKeepsFile ==
    \A c \in Ids :
        (/\ Finished(c)
         /\ PostOnFiles(c)
         /\ conns[c].resp # RESP_201) =>
            \A loc \in DOMAIN InitialFs : loc \in DOMAIN fs /\ fs[loc] = InitialFs[loc]

(***************************************************************************)
(* C20.  A GET /files/{name} handled at the same time as POSTs to the same *)
(* name is answered 404 Not Found, or 200 with the content the file had    *)
(* before the POSTs, or 200 with the whole body of one of them: never with *)
(* a content in between.                                                   *)
(***************************************************************************)
\* The bodies of the POSTs to the name, among the connections accepted.
PostedTo(name) ==
    {B \in RaceBodies : \E p \in Ids : conns[p].data = PostFile(name, B)}

C20_GetSeesWholeFile ==
    \A g \in Ids, name \in RaceNames :
        (Finished(g) /\ conns[g].data = GetFile(name)) =>
            \/ conns[g].resp = RESP_404 /\ file_path(FILES_SLASH \o name) \notin DOMAIN InitialFs
            \/ /\ file_path(FILES_SLASH \o name) \in DOMAIN InitialFs
               /\ conns[g].resp = FileResponse(InitialFs[file_path(FILES_SLASH \o name)])
            \/ \E B \in PostedTo(name) : conns[g].resp = FileResponse(B)

=============================================================================
